---- MODULE Spec2Model ----
(***************************************************************************)
(* Model of gmunk/pyfsa: the Thompson fragment builders and the            *)
(* closure-based NFA simulator of fa.py, the integer-state automata of     *)
(* finite_automaton.py, and the regex front-end of scanner/thompson.py.    *)
(*                                                                         *)
(* The specifications share the variables:                                 *)
(*   Spec       fa.py: State objects on a heap, builders applied to a      *)
(*              stack of fragments, accepts                                *)
(*   SpecFA     finite_automaton.py: NFA construction with the work-list   *)
(*              closure loop, from_symbol / from_concatenation, accepts    *)
(*   SpecRegex  scanner/thompson.py: format_regex and convert_to_postfix   *)
(*   SpecScanner scanner.py: create_nfa evaluating a postfix stream         *)
(*   SpecDFA    finite_automaton.py: the table walk of DFA.accepts          *)
(*   SpecMatch  fa.py or finite_automaton.py: accepts calls of several      *)
(*              threads interleaved on one compiled automaton               *)
(***************************************************************************)
EXTENDS Naturals, Integers, Sequences, FiniteSets, TLC

VARIABLES
    heap,           \* fa.py: the State objects ever allocated, by identity 1..Len(heap)
    stack,          \* fa.py: the fa.NFA fragments held by the caller, oldest first
    status,         \* fa.py: "ok", or the exception that ended the last builder call
    op,             \* fa.py: the last operation performed
    input_str,      \* fa.py: argument of the last accepts call
    result,         \* fa.py: value returned by the last accepts call
    nfa_stack,      \* finite_automaton.py: constructed NFA objects, oldest first
    cur,            \* finite_automaton.py: the NFA whose __init__ is running
    epsilon_closures, \* finite_automaton.py: local of __create_epsilon_closures
    work_list,      \* finite_automaton.py: local of __create_epsilon_closures
    fa_pc,          \* finite_automaton.py: "idle" or "closures" (inside the while loop)
    fa_op,          \* finite_automaton.py: the last operation performed
    fa_input,       \* finite_automaton.py: argument of the last accepts call
    fa_result,      \* finite_automaton.py: outcome of the last accepts call
    operands,       \* finite_automaton.py: the two objects last given to from_union or
                    \* from_concatenation, as their caller finds them after the call
    regex,          \* thompson.py: the argument string
    formatted,      \* thompson.py: value returned by format_regex
    pos,            \* thompson.py: number of characters convert_to_postfix has scanned
    output,         \* thompson.py: local deque of convert_to_postfix
    operators,      \* thompson.py: local operator stack of convert_to_postfix
    re_pc,          \* thompson.py: position in the front-end
    postfix,        \* thompson.py: value returned by convert_to_postfix
    sc_regex,       \* scanner.py: the postfix stream given to create_nfa
    sc_pos,         \* scanner.py: number of characters create_nfa has evaluated
    sc_pc,          \* scanner.py: "idle", "loop", "returned" or the exception raised
    returned,       \* scanner.py: value returned by create_nfa
    dfa,            \* finite_automaton.py: the DFA object accepts is called on
    dfa_input,      \* finite_automaton.py: argument of the last DFA.accepts call
    dfa_pos,        \* finite_automaton.py: number of symbols the for loop has taken
    current_state,  \* finite_automaton.py: local of DFA.accepts
    dfa_pc,         \* finite_automaton.py: "idle", "loop", "break" or "returned"
    dfa_result,     \* finite_automaton.py: value returned by the last DFA.accepts call
    matches         \* per thread: the accepts call it is in (its argument, position in
                    \* the loop, local current_states) and the value it returned

vars == <<heap, stack, status, op, input_str, result,
          nfa_stack, cur, epsilon_closures, work_list, fa_pc, fa_op, fa_input, fa_result, operands,
          regex, formatted, pos, output, operators, re_pc, postfix,
          sc_regex, sc_pos, sc_pc, returned,
          dfa, dfa_input, dfa_pos, current_state, dfa_pc, dfa_result,
          matches>>

faVars == <<heap, stack, status, op, input_str, result>>
fautVars == <<nfa_stack, cur, epsilon_closures, work_list, fa_pc, fa_op, fa_input, fa_result, operands>>
reVars == <<regex, formatted, pos, output, operators, re_pc, postfix>>
scVars == <<sc_regex, sc_pos, sc_pc, returned>>
dfaVars == <<dfa, dfa_input, dfa_pos, current_state, dfa_pc, dfa_result>>
matchVars == <<matches>>

(***************************************************************************)
(* Bounds                                                                  *)
(***************************************************************************)
MaxStates == 8      \* State objects allocated on the fa.py heap
MaxLen == 3         \* length of the input strings given to accepts

Alphabet == {"a", "b"}

RECURSIVE SeqsUpTo(_, _)
SeqsUpTo(S, n) ==
    IF n = 0 THEN {<<>>}
    ELSE LET shorter == SeqsUpTo(S, n - 1)
         IN shorter \cup {Append(w, c) : w \in {v \in shorter : Len(v) = n - 1}, c \in S}

Words == SeqsUpTo(Alphabet, MaxLen)

Min(a, b) == IF a <= b THEN a ELSE b

(***************************************************************************)
(* fa.py                                                                   *)
(***************************************************************************)

\* State.__init__: a label, a defaultdict of per-symbol target sets (no entry
\* until add_transition makes one) and an ordered list of epsilon targets.
State(label, epsilon_transitions) ==
    [label |-> label, transitions |-> <<>>, epsilon_transitions |-> epsilon_transitions]

\* State.add_transition on the State object id: transitions[symbol].add(state)
add_transition(hp, id, symbol, state) ==
    LET t == hp[id].transitions
        old == IF symbol \in DOMAIN t THEN t[symbol] ELSE {}
    IN [hp EXCEPT ![id].transitions = (symbol :> (old \cup {state})) @@ t]

\* State.add_epsilon_transitions: epsilon_transitions.extend(states)
add_epsilon_transitions(hp, id, states) ==
    [hp EXCEPT ![id].epsilon_transitions = @ \o states]

\* State.add_epsilon_transition: epsilon_transitions.append(state)
add_epsilon_transition(hp, id, state) ==
    add_epsilon_transitions(hp, id, <<state>>)

Range(s) == {s[i] : i \in DOMAIN s}

\* Marks a get_epsilon_closure call that recurses without bound.
Unbounded == 0

\* State.get_epsilon_closure: {self, *targets, *closures of the targets}.
\* path is the chain of calls in progress: a state met again on it is
\* entered again with the same continuation, so the recursion never returns
\* (the interpreter ends it with RecursionError); the marker is carried up.
RECURSIVE get_epsilon_closure(_, _, _)
get_epsilon_closure(hp, s, path) ==
    IF s \in path THEN {Unbounded}
    ELSE {s} \cup Range(hp[s].epsilon_transitions)
         \cup UNION {get_epsilon_closure(hp, e, path \cup {s}) : e \in Range(hp[s].epsilon_transitions)}

Labels(hp, states) == {hp[s].label : s \in states}

\* The dicts with keys L whose value under a label is the closure of one of
\* the states carrying that label.
RECURSIVE closure_maps(_, _, _)
closure_maps(hp, states, L) ==
    IF L = {} THEN {<<>>}
    ELSE LET l == CHOOSE x \in L : TRUE
         IN {(l :> get_epsilon_closure(hp, s, {})) @@ m :
                s \in {x \in states : hp[x].label = l}, m \in closure_maps(hp, states, L \ {l})}

\* NFA.__create_epsilon_closures: {s.label: s.get_epsilon_closure() for s in
\* self.states}. The dict is keyed by label, so of several states with one
\* label the one iterated last wins; the iteration order of a set of objects
\* is not fixed, hence the set of maps the comprehension can produce.
create_epsilon_closures(hp, states) == closure_maps(hp, states, Labels(hp, states))

\* True when some get_epsilon_closure call of the comprehension never returns.
closures_recursion_error(hp, states) ==
    \E s \in states : Unbounded \in get_epsilon_closure(hp, s, {})

\* NFA.__init__ (the closure map is supplied by the caller of the operator)
NFA(states, alphabet, initial_state, accepting_states, closures) ==
    [states |-> states, alphabet |-> alphabet, initial_state |-> initial_state,
     accepting_states |-> accepting_states, epsilon_closures |-> closures]

\* e.transitions.get(s, {})
transitions_get(hp, e, s) ==
    IF s \in DOMAIN hp[e].transitions THEN hp[e].transitions[s] ELSE {}

\* One iteration of the loop of NFA.accepts
accepts_step(hp, nfa, current_states, s) ==
    UNION {transitions_get(hp, e, s) :
             e \in UNION {nfa.epsilon_closures[hp[c].label] : c \in current_states}}

RECURSIVE accepts_run(_, _, _, _)
accepts_run(hp, nfa, current_states, w) ==
    IF w = <<>> THEN current_states
    ELSE accepts_run(hp, nfa, accepts_step(hp, nfa, current_states, Head(w)), Tail(w))

\* NFA.accepts
accepts(hp, nfa, w) ==
    accepts_run(hp, nfa, {nfa.initial_state}, w) \cap nfa.accepting_states # {}

\* The fragment a builder returns, or the RecursionError of its NFA(...) call.
Return(hp, rest, states, alphabet, initial_state, accepting_states, name) ==
    /\ heap' = hp
    /\ op' = name
    /\ UNCHANGED <<input_str, result>>
    /\ IF closures_recursion_error(hp, states)
       THEN /\ status' = "RecursionError"
            /\ stack' = rest
       ELSE /\ status' = "ok"
            /\ \E closures \in create_epsilon_closures(hp, states) :
                 stack' = Append(rest, NFA(states, alphabet, initial_state, accepting_states, closures))

\* build_symbol_nfa(s)
build_symbol_nfa(s) ==
    /\ status = "ok"
    /\ Len(heap) + 2 <= MaxStates
    /\ LET initial == Len(heap) + 1
           accepting == Len(heap) + 2
           hp0 == heap \o <<State("initial_" \o s, <<>>), State("accepting_" \o s, <<>>)>>
           hp1 == add_transition(hp0, initial, s, accepting)
       IN Return(hp1, stack, {initial, accepting}, {s}, initial, {accepting}, "symbol")

RECURSIVE add_epsilon_to_all(_, _, _)
\* for s in states: s.add_epsilon_transitions(targets)
add_epsilon_to_all(hp, states, targets) ==
    IF states = {} THEN hp
    ELSE LET s == CHOOSE x \in states : TRUE
         IN add_epsilon_to_all(add_epsilon_transitions(hp, s, targets), states \ {s}, targets)

AllButLastTwo(s) == SubSeq(s, 1, Len(s) - 2)
AllButLast(s) == SubSeq(s, 1, Len(s) - 1)
Last(s) == s[Len(s)]

\* build_concatenation_nfa returning a fragment that keeps the accepting
\* states of both operands
build_concatenation_nfa_keeping_accepting ==
    /\ status = "ok"
    /\ Len(stack) >= 2
    /\ LET first == stack[Len(stack) - 1]
           second == stack[Len(stack)]
           hp1 == add_epsilon_to_all(heap, first.accepting_states, <<second.initial_state>>)
       IN Return(hp1, AllButLastTwo(stack), first.states \cup second.states,
                 first.alphabet \cup second.alphabet,
                 first.initial_state, first.accepting_states \cup second.accepting_states,
                 "concatenation")

\* build_concatenation_nfa(first, second), on the two newest fragments
build_concatenation_nfa ==
    /\ status = "ok"
    /\ Len(stack) >= 2
    /\ LET first == stack[Len(stack) - 1]
           second == stack[Len(stack)]
           hp1 == add_epsilon_to_all(heap, first.accepting_states, <<second.initial_state>>)
       IN Return(hp1, AllButLastTwo(stack), first.states \cup second.states,
                 first.alphabet \cup second.alphabet,
                 first.initial_state, second.accepting_states, "concatenation")

\* zip(first.accepting_states, second.accepting_states): the pairings that
\* some iteration order of the two sets produces.
Zip(A, B) ==
    {P \in SUBSET (A \X B) :
        /\ Cardinality(P) = Min(Cardinality(A), Cardinality(B))
        /\ \A p, q \in P : (p[1] = q[1]) <=> (p[2] = q[2])}

\* build_union_nfa(first, second), on the two newest fragments
build_union_nfa ==
    /\ status = "ok"
    /\ Len(stack) >= 2
    /\ Len(heap) + 2 <= MaxStates
    /\ LET first == stack[Len(stack) - 1]
           second == stack[Len(stack)]
           initial == Len(heap) + 1
           accepting == Len(heap) + 2
           hp0 == heap \o <<State("initial_union", <<first.initial_state, second.initial_state>>),
                            State("accepting_union", <<>>)>>
       IN \E pairs \in Zip(first.accepting_states, second.accepting_states) :
            LET hp1 == add_epsilon_to_all(hp0, {p[1] : p \in pairs}, <<accepting>>)
                hp2 == add_epsilon_to_all(hp1, {p[2] : p \in pairs}, <<accepting>>)
            IN Return(hp2, AllButLastTwo(stack),
                      first.states \cup second.states \cup {initial, accepting},
                      first.alphabet \cup second.alphabet, initial, {accepting}, "union")

\* build_closure_nfa whose loop replaces the epsilon edges of the accepting
\* states of the source by the edge to the new accepting state
build_closure_nfa_without_back_edge ==
    /\ status = "ok"
    /\ Len(stack) >= 1
    /\ Len(heap) + 2 <= MaxStates
    /\ LET source == stack[Len(stack)]
           accepting == Len(heap) + 1
           initial == Len(heap) + 2
           hp0 == heap \o <<State("accepting_closure", <<>>),
                            State("initial_closure", <<source.initial_state, accepting>>)>>
           hp1 == add_epsilon_to_all(hp0, source.accepting_states, <<accepting>>)
       IN Return(hp1, AllButLast(stack), source.states \cup {initial, accepting},
                 source.alphabet, initial, {accepting}, "closure")

\* build_closure_nfa(source), on the newest fragment
build_closure_nfa ==
    /\ status = "ok"
    /\ Len(stack) >= 1
    /\ Len(heap) + 2 <= MaxStates
    /\ LET source == stack[Len(stack)]
           accepting == Len(heap) + 1
           initial == Len(heap) + 2
           hp0 == heap \o <<State("accepting_closure", <<>>),
                            State("initial_closure", <<source.initial_state, accepting>>)>>
           hp1 == add_epsilon_to_all(hp0, source.accepting_states, <<source.initial_state, accepting>>)
       IN Return(hp1, AllButLast(stack), source.states \cup {initial, accepting},
                 source.alphabet, initial, {accepting}, "closure")

\* A call of accepts on the newest fragment
Accepts ==
    /\ status = "ok"
    /\ Len(stack) >= 1
    /\ \E w \in Words :
        /\ input_str' = w
        /\ result' = accepts(heap, stack[Len(stack)], w)
    /\ op' = "accepts"
    /\ UNCHANGED <<heap, stack, status>>

Threads == {1, 2}   \* the threads that call accepts
NoCall == [pc |-> "idle", input_str |-> <<>>, pos |-> 0, current_states |-> {}, result |-> "none"]

\* self.transitions[s] on the defaultdict: a missing key is created
transitions_getitem_heap(hp, e, s) ==
    IF s \in DOMAIN hp[e].transitions THEN hp
    ELSE [hp EXCEPT ![e].transitions = (s :> {}) @@ @]

\* The State objects after e.transitions.get(s, {}): dict.get creates no
\* entry, on a defaultdict too
transitions_get_heap(hp, e, s) == hp

RECURSIVE accepts_step_heap(_, _, _)
\* The State objects after one iteration of the loop of NFA.accepts has
\* looked up s in every State of the set visited
accepts_step_heap(hp, visited, s) ==
    IF visited = {} THEN hp
    ELSE LET e == CHOOSE x \in visited : TRUE
         IN accepts_step_heap(transitions_get_heap(hp, e, s), visited \ {e}, s)

\* Thread t enters NFA.accepts(w) on the newest fragment:
\* current_states = {self.initial_state}
accepts_call(t, w) ==
    /\ status = "ok"
    /\ Len(stack) >= 1
    /\ matches[t].pc \in {"idle", "returned"}
    /\ matches' = [matches EXCEPT ![t] =
                     [pc |-> "loop", input_str |-> w, pos |-> 0,
                      current_states |-> {Last(stack).initial_state}, result |-> @.result]]
    /\ UNCHANGED faVars

\* Thread t runs one iteration of the for loop of NFA.accepts
accepts_loop(t) ==
    /\ Len(stack) >= 1
    /\ matches[t].pc = "loop"
    /\ matches[t].pos < Len(matches[t].input_str)
    /\ LET nfa == Last(stack)
           s == matches[t].input_str[matches[t].pos + 1]
           visited == UNION {nfa.epsilon_closures[heap[c].label] : c \in matches[t].current_states}
       IN /\ matches' = [matches EXCEPT ![t].pos = @ + 1,
                                        ![t].current_states = accepts_step(heap, nfa, @, s)]
          /\ heap' = accepts_step_heap(heap, visited, s)
    /\ UNCHANGED <<stack, status, op, input_str, result>>

\* Thread t leaves the loop:
\* return not current_states.isdisjoint(self.accepting_states)
accepts_return(t) ==
    /\ Len(stack) >= 1
    /\ matches[t].pc = "loop"
    /\ matches[t].pos = Len(matches[t].input_str)
    /\ matches' = [matches EXCEPT ![t].pc = "returned",
                                  ![t].result =
                                     IF matches[t].current_states \cap Last(stack).accepting_states # {}
                                     THEN "True" ELSE "False"]
    /\ UNCHANGED faVars

(***************************************************************************)
(* finite_automaton.py                                                     *)
(***************************************************************************)

\* Bounds of the NFA(...) calls made directly by a client (as the tests do)
NumDirectStates == 4    \* states 0..NumDirectStates-1 of a directly built NFA
MaxEpsEdges == 2        \* epsilon edges of a directly built NFA
MaxFaStates == 4        \* states of the NFA objects held at one time

\* The key under which __create_epsilon_closures looks up the epsilon
\* targets of a state (and under which the tests write them).
EPS_READ == ""
\* The key -1 under which from_concatenation writes an epsilon edge and
\* __create_epsilon_predecessors reads it; a string here because the keys of
\* one function must be comparable.
EPS_BUILT == "-1"

FaSymbols == Alphabet \cup {"t"}
FaWords == SeqsUpTo(FaSymbols, MaxLen)

\* dict.get(k, {}) on a mapping held as a function
Get(d, k) == IF k \in DOMAIN d THEN d[k] ELSE {}
\* dict.get(k, {}) where the values are themselves mappings
GetMap(d, k) == IF k \in DOMAIN d THEN d[k] ELSE <<>>

\* dict.update: the entries of the argument replace those of the receiver
update(d, other) == other @@ d

\* FA.__init__: the five fields (epsilon_closures is added by NFA.__init__)
FA(states, alphabet, transition_mappings, start_state, accepting_states) ==
    [states |-> states, alphabet |-> alphabet, transition_mappings |-> transition_mappings,
     start_state |-> start_state, accepting_states |-> accepting_states]

\* NFA.__create_epsilon_predecessors
create_epsilon_predecessors(tm) ==
    [s \in UNION {Get(tm[k], EPS_BUILT) : k \in DOMAIN tm} |->
        {k \in DOMAIN tm : s \in Get(tm[k], EPS_BUILT)}]

\* reorder_transition_mappings(tm, i): the dict comprehension writes one
\* entry k + i per (k, kk) pair, so for each k the entry of the key kk that
\* is iterated last stays, holding the one element vv.pop() took from the
\* target set. Insertion order of the inner dict and the element a set pops
\* are not fixed by the mapping, hence the set of possible values.
reorder_transition_mappings(tm, i) ==
    LET keys == {x \in DOMAIN tm : DOMAIN tm[x] # {}}
        entries(k) == {<<kk, t>> : kk \in DOMAIN tm[k], t \in UNION {tm[k][x] : x \in DOMAIN tm[k]}}
        all == UNION {entries(k) : k \in keys}
    IN {[n \in {k + i : k \in keys} |-> (c[n - i][1] :> {c[n - i][2] + i})] :
          c \in {f \in [keys -> all] :
                   \A k \in keys : f[k][1] \in DOMAIN tm[k] /\ f[k][2] \in tm[k][f[k][1]]}}

\* What reorder_transition_mappings(tm, i) leaves of its argument: vv.pop()
\* runs once for every (k, kk) pair, on the set object tm holds, so every
\* target set of tm loses one element.
reorder_transition_mappings_pops(tm) ==
    LET pairs == UNION {{<<k, kk>> : kk \in DOMAIN tm[k]} : k \in DOMAIN tm}
        all == UNION {tm[p[1]][p[2]] : p \in pairs}
    IN {[k \in DOMAIN tm |-> [kk \in DOMAIN tm[k] |-> tm[k][kk] \ {popped[<<k, kk>>]}]] :
          popped \in {f \in [pairs -> all] : \A p \in pairs : f[p] \in tm[p[1]][p[2]]}}

\* set.pop() on the accepting_states of an operand: one element leaves the set
accepting_states_pop(nfa) ==
    {[nfa EXCEPT !.accepting_states = @ \ {popped}] : popped \in nfa.accepting_states}

\* first and second as NFA.from_concatenation(first, second) leaves them:
\* both accepting_states are popped and second.transition_mappings goes
\* through reorder_transition_mappings (first.transition_mappings is only
\* copied by dict.update). The elements popped here are drawn independently
\* of those concatenation_nfas draws; where the sets hold one element, as
\* the sets the constructors build do, there is one outcome.
concatenation_operands(first, second) ==
    {<<f, [s EXCEPT !.transition_mappings = tm]>> :
        f \in accepting_states_pop(first), s \in accepting_states_pop(second),
        tm \in reorder_transition_mappings_pops(second.transition_mappings)}

\* first and second as NFA.from_union(first, second) leaves them: both
\* accepting_states are popped and both transition_mappings go through
\* reorder_transition_mappings.
union_operands(first, second) ==
    {<<[f EXCEPT !.transition_mappings = tm1], [s EXCEPT !.transition_mappings = tm2]>> :
        f \in accepting_states_pop(first), s \in accepting_states_pop(second),
        tm1 \in reorder_transition_mappings_pops(first.transition_mappings),
        tm2 \in reorder_transition_mappings_pops(second.transition_mappings)}

\* NFA.__init__ up to the entry of the while loop of __create_epsilon_closures
Construct(fa, name) ==
    /\ cur' = fa
    /\ epsilon_closures' = [s \in fa.states |-> {s}]
    /\ work_list' = fa.states
    /\ fa_pc' = "closures"
    /\ fa_op' = name
    /\ UNCHANGED <<fa_input, fa_result>>

\* The transition tables a client passes to NFA(...): symbol transitions of
\* the automaton of the tests (or a variant), and up to MaxEpsEdges epsilon
\* edges written under the key "".
DirectStates == 0..(NumDirectStates - 1)
SymbolTables ==
    {(0 :> ("a" :> {0})) @@ (1 :> ("a" :> {2})) @@ (2 :> ("b" :> {3})),
     (0 :> ("a" :> {1})) @@ (1 :> ("a" :> {1, 2})) @@ (2 :> ("b" :> {3}))}
EpsRelations == {E \in SUBSET (DirectStates \X DirectStates) : Cardinality(E) <= MaxEpsEdges}
WithEps(table, E) ==
    [s \in DOMAIN table \cup {e[1] : e \in E} |->
        LET targets == {e[2] : e \in {x \in E : x[1] = s}}
            sym == GetMap(table, s)
        IN IF targets = {} THEN sym ELSE (EPS_READ :> targets) @@ sym]

\* NFA(states, alphabet, transition_mappings, start_state, accepting_states)
NFA_init ==
    /\ fa_pc = "idle"
    /\ nfa_stack = <<>>
    /\ \E table \in SymbolTables, E \in EpsRelations :
         Construct(FA(DirectStates, Alphabet, WithEps(table, E), 0, {NumDirectStates - 1}), "init")
    /\ UNCHANGED <<nfa_stack, operands>>

StatesHeld == IF nfa_stack = <<>> THEN 0
              ELSE Cardinality(UNION {{<<i, s>> : s \in nfa_stack[i].states} : i \in DOMAIN nfa_stack})

\* The arguments NFA.from_symbol(s) passes to cls(...)
symbol_nfa(s) == FA({0, 1}, {s}, (0 :> (s :> {1})), 0, {1})

\* NFA.from_symbol(s)
from_symbol ==
    /\ fa_pc = "idle"
    /\ StatesHeld + 2 <= MaxFaStates
    /\ \E s \in Alphabet : Construct(symbol_nfa(s), "from_symbol")
    /\ UNCHANGED <<nfa_stack, operands>>

\* from_concatenation taking the operands in the order of the pops of a
\* stack read from the top: the newer fragment first
concatenation_nfas_swapped(second, first) ==
    LET first_num_states == Cardinality(first.states)
        states == {s + first_num_states : s \in second.states} \cup first.states
        alphabet == first.alphabet \cup second.alphabet
    IN {FA(states, alphabet,
           update(update((fa_acc :> (EPS_BUILT :> {second.start_state + first_num_states})),
                         first.transition_mappings),
                  reordered),
           first.start_state, {sa_acc + first_num_states}) :
          fa_acc \in first.accepting_states, sa_acc \in second.accepting_states,
          reordered \in reorder_transition_mappings(second.transition_mappings, first_num_states)}

\* The arguments NFA.from_concatenation(first, second) passes to cls(...);
\* a set, for the element each accepting_states.pop() and vv.pop() takes.
concatenation_nfas(first, second) ==
    LET first_num_states == Cardinality(first.states)
        states == {s + first_num_states : s \in second.states} \cup first.states
        alphabet == first.alphabet \cup second.alphabet
    IN {FA(states, alphabet,
           update(update((fa_acc :> (EPS_BUILT :> {second.start_state + first_num_states})),
                         first.transition_mappings),
                  reordered),
           first.start_state, {sa_acc + first_num_states}) :
          fa_acc \in first.accepting_states, sa_acc \in second.accepting_states,
          reordered \in reorder_transition_mappings(second.transition_mappings, first_num_states)}

\* NFA.from_concatenation(first, second) on the two newest NFA objects, as
\* scanner.create_nfa calls it: from_concatenation(pop(-2), pop())
from_concatenation ==
    /\ fa_pc = "idle"
    /\ Len(nfa_stack) >= 2
    /\ \E fa \in concatenation_nfas(nfa_stack[Len(nfa_stack) - 1], nfa_stack[Len(nfa_stack)]) :
         Construct(fa, "from_concatenation")
    /\ operands' \in concatenation_operands(nfa_stack[Len(nfa_stack) - 1], nfa_stack[Len(nfa_stack)])
    /\ nfa_stack' = AllButLastTwo(nfa_stack)

\* from_union keeping only the alphabet of the first operand
union_nfas_first_alphabet(first, second) ==
    LET first_num_states == Cardinality(first.states)
        second_num_states == Cardinality(second.states)
        states == 0..(first_num_states + second_num_states - 1)
        alphabet == first.alphabet
        last == first_num_states + second_num_states + 1
    IN {FA(states, alphabet,
           update(update(((sa_acc + first_num_states + 1) :> (EPS_BUILT :> {last}))
                           @@ ((fa_acc + 1) :> (EPS_BUILT :> {last}))
                           @@ (0 :> (EPS_BUILT :> {first.start_state + 1,
                                                   second.start_state + first_num_states + 1})),
                         r1),
                  r2),
           0, {last}) :
          fa_acc \in first.accepting_states, sa_acc \in second.accepting_states,
          r1 \in reorder_transition_mappings(first.transition_mappings, 1),
          r2 \in reorder_transition_mappings(second.transition_mappings, first_num_states + 1)}

\* The arguments NFA.from_union(first, second) passes to cls(...)
union_nfas(first, second) ==
    LET first_num_states == Cardinality(first.states)
        second_num_states == Cardinality(second.states)
        states == 0..(first_num_states + second_num_states - 1)
        alphabet == first.alphabet \cup second.alphabet
        last == first_num_states + second_num_states + 1
    IN {FA(states, alphabet,
           update(update(((sa_acc + first_num_states + 1) :> (EPS_BUILT :> {last}))
                           @@ ((fa_acc + 1) :> (EPS_BUILT :> {last}))
                           @@ (0 :> (EPS_BUILT :> {first.start_state + 1,
                                                   second.start_state + first_num_states + 1})),
                         r1),
                  r2),
           0, {last}) :
          fa_acc \in first.accepting_states, sa_acc \in second.accepting_states,
          r1 \in reorder_transition_mappings(first.transition_mappings, 1),
          r2 \in reorder_transition_mappings(second.transition_mappings, first_num_states + 1)}

\* One iteration of the while loop of __create_epsilon_closures. The result
\* of work_list.union(...) is dropped, so the work-list only ever shrinks.
work_list_step ==
    /\ fa_pc = "closures"
    /\ work_list # {}
    /\ \E state \in work_list :
         LET epsilon_predecessors == create_epsilon_predecessors(cur.transition_mappings)
             epsilon_targets == Get(GetMap(cur.transition_mappings, state), EPS_READ)
             epsilon_closure == UNION {epsilon_closures[et] : et \in epsilon_targets}
         IN /\ epsilon_targets \subseteq DOMAIN epsilon_closures
            /\ work_list' = work_list \ {state}
            /\ epsilon_closures' =
                 IF epsilon_closure # epsilon_closures[state]
                 THEN [epsilon_closures EXCEPT ![state] = @ \cup epsilon_closure]
                 ELSE epsilon_closures
    /\ UNCHANGED <<nfa_stack, cur, fa_pc, fa_op, fa_input, fa_result, operands>>

\* The loop ends: __create_epsilon_closures returns, __init__ stores the map
\* and the caller keeps the new object.
work_list_done ==
    /\ fa_pc = "closures"
    /\ work_list = {}
    /\ nfa_stack' = Append(nfa_stack, cur @@ [epsilon_closures |-> epsilon_closures])
    /\ fa_pc' = "idle"
    /\ cur' = <<>>
    /\ epsilon_closures' = <<>>
    /\ UNCHANGED <<work_list, fa_op, fa_input, fa_result, operands>>

\* One iteration of the loop of finite_automaton.NFA.accepts; KeyError when
\* a current state has no entry in epsilon_closures.
fa_accepts_step(nfa, current_states, i) ==
    UNION {Get(GetMap(nfa.transition_mappings, ecs), i) :
             ecs \in UNION {nfa.epsilon_closures[cs] : cs \in current_states}}

RECURSIVE fa_accepts_run(_, _, _)
fa_accepts_run(nfa, current_states, w) ==
    IF w = <<>> THEN [error |-> FALSE, current_states |-> current_states]
    ELSE IF ~(current_states \subseteq DOMAIN nfa.epsilon_closures)
         THEN [error |-> TRUE, current_states |-> current_states]
         ELSE fa_accepts_run(nfa, fa_accepts_step(nfa, current_states, Head(w)), Tail(w))

\* finite_automaton.NFA.accepts: "True", "False" or "KeyError"
fa_accepts(nfa, w) ==
    LET r == fa_accepts_run(nfa, {nfa.start_state}, w)
    IN IF r.error THEN "KeyError"
       ELSE IF r.current_states \subseteq nfa.accepting_states THEN "True" ELSE "False"

\* A call of accepts on the newest NFA object
FaAccepts ==
    /\ fa_pc = "idle"
    /\ Len(nfa_stack) >= 1
    /\ \E w \in FaWords :
        /\ fa_input' = w
        /\ fa_result' = fa_accepts(nfa_stack[Len(nfa_stack)], w)
    /\ fa_op' = "accepts"
    /\ UNCHANGED <<nfa_stack, cur, epsilon_closures, work_list, fa_pc, operands>>

\* Thread t enters accepts(w) on the newest NFA object:
\* current_states = {self.start_state}
fa_accepts_call(t, w) ==
    /\ fa_pc = "idle"
    /\ Len(nfa_stack) >= 1
    /\ matches[t].pc \in {"idle", "returned"}
    /\ matches' = [matches EXCEPT ![t] =
                     [pc |-> "loop", input_str |-> w, pos |-> 0,
                      current_states |-> {Last(nfa_stack).start_state}, result |-> @.result]]
    /\ UNCHANGED fautVars

\* Thread t runs one iteration of the for loop of accepts; the KeyError of
\* self.epsilon_closures[cs] ends the call. The two dict.get calls and the
\* subscript of the plain dict assign nothing.
fa_accepts_loop(t) ==
    /\ Len(nfa_stack) >= 1
    /\ matches[t].pc = "loop"
    /\ matches[t].pos < Len(matches[t].input_str)
    /\ LET nfa == Last(nfa_stack)
           i == matches[t].input_str[matches[t].pos + 1]
       IN matches' =
            IF ~(matches[t].current_states \subseteq DOMAIN nfa.epsilon_closures)
            THEN [matches EXCEPT ![t].pc = "returned", ![t].result = "KeyError"]
            ELSE [matches EXCEPT ![t].pos = @ + 1,
                                 ![t].current_states = fa_accepts_step(nfa, @, i)]
    /\ UNCHANGED fautVars

\* Thread t leaves the loop:
\* return current_states.issubset(self.accepting_states)
fa_accepts_return(t) ==
    /\ Len(nfa_stack) >= 1
    /\ matches[t].pc = "loop"
    /\ matches[t].pos = Len(matches[t].input_str)
    /\ matches' = [matches EXCEPT ![t].pc = "returned",
                                  ![t].result =
                                     IF matches[t].current_states \subseteq Last(nfa_stack).accepting_states
                                     THEN "True" ELSE "False"]
    /\ UNCHANGED fautVars

\* The value None held by current_state
NoState == "None"

\* self.transition_mappings.get(current_state, {}).get(i), staying in the
\* current state where the table has no entry
dfa_get_staying(d, state, i) ==
    LET row == GetMap(d.transition_mappings, state)
    IN IF i \in DOMAIN row THEN row[i] ELSE state

\* self.transition_mappings.get(current_state, {}).get(i)
dfa_get(d, state, i) ==
    LET row == GetMap(d.transition_mappings, state)
    IN IF i \in DOMAIN row THEN row[i] ELSE NoState

\* DFA.accepts is entered: current_state = self.start_state
dfa_accepts_call(w) ==
    /\ dfa_pc \in {"idle", "returned"}
    /\ dfa_input' = w
    /\ dfa_pos' = 0
    /\ current_state' = dfa.start_state
    /\ dfa_pc' = "loop"
    /\ UNCHANGED <<dfa, dfa_result>>

\* One iteration of the for loop of DFA.accepts
dfa_accepts_step ==
    /\ dfa_pc = "loop"
    /\ dfa_pos < Len(dfa_input)
    /\ dfa_pos' = dfa_pos + 1
    /\ current_state' = dfa_get(dfa, current_state, dfa_input[dfa_pos + 1])
    /\ dfa_pc' = IF current_state' = NoState THEN "break" ELSE "loop"
    /\ UNCHANGED <<dfa, dfa_input, dfa_result>>

\* return current_state in self.accepting_states, after the loop is left
dfa_accepts_return ==
    /\ \/ dfa_pc = "loop" /\ dfa_pos = Len(dfa_input)
       \/ dfa_pc = "break"
    /\ dfa_result' = (current_state \in dfa.accepting_states)
    /\ dfa_pc' = "returned"
    /\ UNCHANGED <<dfa, dfa_input, dfa_pos, current_state>>

(***************************************************************************)
(* scanner.py                                                              *)
(***************************************************************************)

MaxStreamLen == 5       \* every stream over StreamChars up to this length is an argument

\* The value of a call that returns nothing (NFA.from_kleene_closure: pass)
None == [none |-> TRUE]
IsNone(v) == "none" \in DOMAIN v

StreamChars == Alphabet \cup {"?", "|", "*"}

\* create_nfa has the character c to evaluate next
Evaluating(c) ==
    /\ sc_pc = "loop"
    /\ fa_pc = "idle"
    /\ sc_pos < Len(sc_regex)
    /\ sc_regex[sc_pos + 1] = c

\* An exception leaves create_nfa; what nfa_stack.pop(...) removed is gone
Raise(exception, rest) ==
    /\ sc_pc' = exception
    /\ nfa_stack' = rest
    /\ UNCHANGED <<cur, epsilon_closures, work_list, fa_pc, fa_op, fa_input, fa_result, operands>>

\* A binary operator: nfa_stack.pop(-2), then nfa_stack.pop(), then the
\* builder, whose first attribute access fails on None
evaluate_binary(name) ==
    IF Len(nfa_stack) < 2
    THEN Raise("IndexError", nfa_stack)
    ELSE LET first == nfa_stack[Len(nfa_stack) - 1]
             second == nfa_stack[Len(nfa_stack)]
         IN IF IsNone(first) \/ IsNone(second)
            THEN Raise("AttributeError", AllButLastTwo(nfa_stack))
            ELSE /\ \E fa \in (IF name = "from_concatenation"
                            THEN concatenation_nfas(first, second)
                            ELSE union_nfas(first, second)) : Construct(fa, name)
                 /\ operands' \in (IF name = "from_concatenation"
                                    THEN concatenation_operands(first, second)
                                    ELSE union_operands(first, second))
                 /\ nfa_stack' = AllButLastTwo(nfa_stack)
                 /\ UNCHANGED sc_pc

\* create_nfa, loop body: c == "?"
create_nfa_concatenation ==
    /\ Evaluating("?")
    /\ evaluate_binary("from_concatenation")
    /\ sc_pos' = sc_pos + 1
    /\ UNCHANGED <<sc_regex, returned>>

\* create_nfa, loop body: c == "|"
create_nfa_union ==
    /\ Evaluating("|")
    /\ evaluate_binary("from_union")
    /\ sc_pos' = sc_pos + 1
    /\ UNCHANGED <<sc_regex, returned>>

\* create_nfa, loop body: c == "*": from_kleene_closure(nfa_stack.pop())
\* returns None, which is appended
create_nfa_kleene_closure ==
    /\ Evaluating("*")
    /\ IF nfa_stack = <<>>
       THEN Raise("IndexError", nfa_stack)
       ELSE /\ nfa_stack' = Append(AllButLast(nfa_stack), None)
            /\ fa_op' = "from_kleene_closure"
            /\ UNCHANGED <<sc_pc, cur, epsilon_closures, work_list, fa_pc, fa_input, fa_result, operands>>
    /\ sc_pos' = sc_pos + 1
    /\ UNCHANGED <<sc_regex, returned>>

\* create_nfa, loop body: any other character
create_nfa_symbol ==
    /\ \E c \in StreamChars \ {"?", "|", "*"} :
        /\ Evaluating(c)
        /\ Construct(symbol_nfa(c), "from_symbol")
    /\ sc_pos' = sc_pos + 1
    /\ UNCHANGED <<sc_regex, sc_pc, returned, nfa_stack, operands>>

\* create_nfa after the loop: return nfa_stack.pop()
create_nfa_return ==
    /\ sc_pc = "loop"
    /\ fa_pc = "idle"
    /\ sc_pos = Len(sc_regex)
    /\ IF nfa_stack = <<>>
       THEN /\ sc_pc' = "IndexError"
            /\ UNCHANGED <<returned, nfa_stack>>
       ELSE /\ sc_pc' = "returned"
            /\ returned' = Last(nfa_stack)
            /\ nfa_stack' = AllButLast(nfa_stack)
    /\ UNCHANGED <<sc_regex, sc_pos, cur, epsilon_closures, work_list, fa_pc, fa_op, fa_input, fa_result, operands>>

(***************************************************************************)
(* scanner/thompson.py                                                     *)
(***************************************************************************)

MaxRegexLen == 4        \* every string over RegexChars up to this length is an argument
MaxWellFormedLen == 8   \* every well-formed explicit regex up to this length is an argument

LPAREN == "("
RPAREN == ")"
CONCATENATION == "."
ALTERNATION == "|"
CLOSURE == "*"
OPERATORS == {ALTERNATION, CLOSURE}
SPECIAL_CHARS == OPERATORS \cup {LPAREN, RPAREN, CONCATENATION}
PRECEDENCE ==
    (CLOSURE :> 1) @@ (CONCATENATION :> 2) @@ (ALTERNATION :> 3) @@ (LPAREN :> 4) @@ (RPAREN :> 4)

RegexChars == Alphabet \cup SPECIAL_CHARS

\* should_concatenate without the test a != ALTERNATION
should_concatenate_after_alternation(a, b) ==
    a # LPAREN /\ b # RPAREN /\ b \notin OPERATORS

\* format_regex.should_concatenate
should_concatenate(a, b) ==
    a # LPAREN /\ b # RPAREN /\ a # ALTERNATION /\ b \notin OPERATORS

\* The list comprehension of format_regex from index i on, joined
RECURSIVE format_from(_, _)
format_from(r, i) ==
    IF i > Len(r) THEN <<>>
    ELSE (IF i + 1 <= Len(r) /\ should_concatenate(r[i], r[i + 1])
          THEN <<r[i], CONCATENATION>> ELSE <<r[i]>>) \o format_from(r, i + 1)

\* format_regex(regex)
format_regex(r) == format_from(r, 1)

RECURSIVE Reverse(_)
Reverse(s) == IF s = <<>> THEN <<>> ELSE Append(Reverse(Tail(s)), Head(s))

\* The while loop of the RPAREN branch leaving quietly when the stack runs
\* out (a guard "if not operators: break" before the pop)
RECURSIVE pop_until_lparen_or_empty(_, _)
pop_until_lparen_or_empty(ops, out) ==
    IF ops = <<>> THEN [error |-> FALSE, operators |-> ops, output |-> out]
    ELSE IF Last(ops) = LPAREN
         THEN [error |-> FALSE, operators |-> AllButLast(ops), output |-> out]
         ELSE pop_until_lparen_or_empty(AllButLast(ops), Append(out, Last(ops)))

\* The while loop of the RPAREN branch: pop to the output until LPAREN is
\* popped; operators.pop() on the empty list raises IndexError.
RECURSIVE pop_until_lparen(_, _)
pop_until_lparen(ops, out) ==
    IF ops = <<>> THEN [error |-> TRUE, operators |-> ops, output |-> out]
    ELSE IF Last(ops) = LPAREN
         THEN [error |-> FALSE, operators |-> AllButLast(ops), output |-> out]
         ELSE pop_until_lparen(AllButLast(ops), Append(out, Last(ops)))

\* The test of the while loop with < for <=: equal precedence stays stacked
pops_strictly_higher(top, c) == PRECEDENCE[top] < PRECEDENCE[c]

\* The test of the while loop of the operator branch
pops(top, c) == PRECEDENCE[top] <= PRECEDENCE[c]

\* The while loop of the operator branch: pop while the test holds, then push c
RECURSIVE pop_then_push(_, _, _)
pop_then_push(ops, out, c) ==
    IF ops # <<>> /\ pops(Last(ops), c)
    THEN pop_then_push(AllButLast(ops), Append(out, Last(ops)), c)
    ELSE [operators |-> Append(ops, c), output |-> out]

\* A call format_regex(regex)
FormatRegex ==
    /\ re_pc = "start"
    /\ formatted' = format_regex(regex)
    /\ re_pc' = "scan"
    /\ UNCHANGED <<regex, pos, output, operators, postfix>>

Scanning(c) == re_pc = "scan" /\ pos < Len(regex) /\ regex[pos + 1] = c

\* convert_to_postfix, loop body: c not in SPECIAL_CHARS
scan_literal ==
    /\ \E c \in RegexChars \ SPECIAL_CHARS :
        /\ Scanning(c)
        /\ output' = Append(output, c)
    /\ pos' = pos + 1
    /\ UNCHANGED <<regex, formatted, operators, re_pc, postfix>>

\* convert_to_postfix, loop body: c == LPAREN
scan_lparen ==
    /\ Scanning(LPAREN)
    /\ operators' = Append(operators, LPAREN)
    /\ pos' = pos + 1
    /\ UNCHANGED <<regex, formatted, output, re_pc, postfix>>

\* convert_to_postfix, loop body: c == RPAREN
scan_rparen ==
    /\ Scanning(RPAREN)
    /\ LET r == pop_until_lparen(operators, output)
       IN /\ operators' = r.operators
          /\ output' = r.output
          /\ re_pc' = IF r.error THEN "IndexError" ELSE re_pc
    /\ pos' = pos + 1
    /\ UNCHANGED <<regex, formatted, postfix>>

\* convert_to_postfix, loop body: the else branch (".", "|", "*")
scan_operator ==
    /\ \E c \in SPECIAL_CHARS \ {LPAREN, RPAREN} :
        /\ Scanning(c)
        /\ LET r == pop_then_push(operators, output, c)
           IN /\ operators' = r.operators
              /\ output' = r.output
    /\ pos' = pos + 1
    /\ UNCHANGED <<regex, formatted, re_pc, postfix>>

\* convert_to_postfix after the loop: output.extend(operators[::-1]); return
finish ==
    /\ re_pc = "scan"
    /\ pos = Len(regex)
    /\ output' = output \o Reverse(operators)
    /\ postfix' = output'
    /\ re_pc' = "done"
    /\ UNCHANGED <<regex, formatted, pos, operators>>

NoWord == <<"-">>

InitFa ==
    /\ heap = <<>>
    /\ stack = <<>>
    /\ status = "ok"
    /\ op = "none"
    /\ input_str = NoWord
    /\ result = FALSE

InitFaut ==
    /\ nfa_stack = <<>>
    /\ cur = <<>>
    /\ epsilon_closures = <<>>
    /\ work_list = {}
    /\ fa_pc = "idle"
    /\ fa_op = "none"
    /\ fa_input = NoWord
    /\ fa_result = "none"
    /\ operands = <<>>

InitRe ==
    /\ formatted = <<>>
    /\ pos = 0
    /\ output = <<>>
    /\ operators = <<>>
    /\ re_pc = "start"
    /\ postfix = <<>>

InitMatch == matches = [t \in Threads |-> NoCall]

InitDfa ==
    /\ dfa = FA({}, {}, <<>>, NoState, {})
    /\ dfa_input = <<>>
    /\ dfa_pos = 0
    /\ current_state = NoState
    /\ dfa_pc = "idle"
    /\ dfa_result = FALSE

InitSc ==
    /\ sc_pos = 0
    /\ returned = None

Init == InitFa /\ InitFaut /\ InitRe /\ regex = <<>> /\ InitDfa /\ InitMatch /\ InitSc /\ sc_regex = <<>> /\ sc_pc = "idle"

Next ==
    \/ (\E s \in Alphabet : build_symbol_nfa(s)) /\ UNCHANGED <<fautVars, reVars, scVars, dfaVars, matchVars>>
    \/ build_concatenation_nfa /\ UNCHANGED <<fautVars, reVars, scVars, dfaVars, matchVars>>
    \/ build_union_nfa /\ UNCHANGED <<fautVars, reVars, scVars, dfaVars, matchVars>>
    \/ build_closure_nfa /\ UNCHANGED <<fautVars, reVars, scVars, dfaVars, matchVars>>
    \/ Accepts /\ UNCHANGED <<fautVars, reVars, scVars, dfaVars, matchVars>>

Spec == Init /\ [][Next]_vars

NextFA ==
    \/ NFA_init /\ UNCHANGED <<faVars, reVars, scVars, dfaVars, matchVars>>
    \/ from_symbol /\ UNCHANGED <<faVars, reVars, scVars, dfaVars, matchVars>>
    \/ from_concatenation /\ UNCHANGED <<faVars, reVars, scVars, dfaVars, matchVars>>
    \/ work_list_step /\ UNCHANGED <<faVars, reVars, scVars, dfaVars, matchVars>>
    \/ work_list_done /\ UNCHANGED <<faVars, reVars, scVars, dfaVars, matchVars>>
    \/ FaAccepts /\ UNCHANGED <<faVars, reVars, scVars, dfaVars, matchVars>>

SpecFA == Init /\ [][NextFA]_vars

\* The well-formed infix regexes with explicit concatenation, by length:
\* a literal, E*, (E), E.E and E|E.
WellFormedOfLen[k \in 1..MaxWellFormedLen] ==
    IF k = 1 THEN {<<c>> : c \in Alphabet}
    ELSE {Append(e, CLOSURE) : e \in WellFormedOfLen[k - 1]}
         \cup (IF k >= 3 THEN {<<LPAREN>> \o e \o <<RPAREN>> : e \in WellFormedOfLen[k - 2]} ELSE {})
         \cup UNION {{e1 \o <<o>> \o e2 : e1 \in WellFormedOfLen[i], e2 \in WellFormedOfLen[k - 1 - i],
                                          o \in {CONCATENATION, ALTERNATION}} : i \in 1..(k - 2)}

\* The infix regexes of the tests of convert_to_postfix and format_regex
TestRegexes ==
    {<<"a", ".", "a", ".", "b">>, <<"a", "|", "b">>, <<"a", "|", "b", "*">>,
     <<"a", ".", "(", "a", "|", "b", ")">>,
     <<"a", ".", "(", "a", "|", "b", ")", "*", ".", "b">>,
     <<"a", "b">>, <<"a", "(", "a", "|", "b", ")", "*", "b">>}

Regexes ==
    SeqsUpTo(RegexChars, MaxRegexLen)
    \cup UNION {WellFormedOfLen[k] : k \in 1..MaxWellFormedLen}
    \cup TestRegexes

InitRegex ==
    /\ InitFa /\ InitFaut /\ InitRe /\ regex \in Regexes
    /\ InitDfa /\ InitMatch /\ InitSc /\ sc_regex = <<>> /\ sc_pc = "idle"

NextRegex ==
    \/ FormatRegex /\ UNCHANGED <<faVars, fautVars, scVars, dfaVars, matchVars>>
    \/ scan_literal /\ UNCHANGED <<faVars, fautVars, scVars, dfaVars, matchVars>>
    \/ scan_lparen /\ UNCHANGED <<faVars, fautVars, scVars, dfaVars, matchVars>>
    \/ scan_rparen /\ UNCHANGED <<faVars, fautVars, scVars, dfaVars, matchVars>>
    \/ scan_operator /\ UNCHANGED <<faVars, fautVars, scVars, dfaVars, matchVars>>
    \/ finish /\ UNCHANGED <<faVars, fautVars, scVars, dfaVars, matchVars>>

SpecRegex == InitRegex /\ [][NextRegex]_vars

\* The postfix streams of the tests of create_nfa, and longer ones in which
\* a union or a concatenation is itself an operand
TestStreams ==
    {<<"a">>, <<"b">>, <<"a", "b", "?">>, <<"a", "b", "|">>,
     <<"a", "b", "|", "a", "?">>, <<"a", "a", "b", "?", "|">>,
     <<"a", "b", "?", "a", "|">>, <<"a", "b", "|", "b", "|">>,
     <<"a", "a", "b", "|", "?">>}

Streams == SeqsUpTo(StreamChars, MaxStreamLen) \cup TestStreams

InitScanner ==
    /\ InitFa /\ InitFaut /\ InitRe /\ regex = <<>>
    /\ InitDfa /\ InitMatch /\ InitSc /\ sc_regex \in Streams /\ sc_pc = "loop"

NextScanner ==
    \/ create_nfa_symbol /\ UNCHANGED <<faVars, reVars, dfaVars, matchVars>>
    \/ create_nfa_concatenation /\ UNCHANGED <<faVars, reVars, dfaVars, matchVars>>
    \/ create_nfa_union /\ UNCHANGED <<faVars, reVars, dfaVars, matchVars>>
    \/ create_nfa_kleene_closure /\ UNCHANGED <<faVars, reVars, dfaVars, matchVars>>
    \/ work_list_step /\ UNCHANGED <<faVars, reVars, scVars, dfaVars, matchVars>>
    \/ work_list_done /\ UNCHANGED <<faVars, reVars, scVars, dfaVars, matchVars>>
    \/ create_nfa_return /\ UNCHANGED <<faVars, reVars, dfaVars, matchVars>>

SpecScanner == InitScanner /\ [][NextScanner]_vars

(***************************************************************************)
(* SpecDFA: DFA.accepts on the automaton of the tests and on every partial *)
(* table over DfaStates and Alphabet                                       *)
(***************************************************************************)

MaxDfaLen == 3      \* length of the words over Alphabet given to DFA.accepts
DfaStates == {"s0", "s1"}

\* The automaton of TestDeterministicFiniteAutomaton.setUp
TestDFA ==
    FA({"s0", "s1", "s2", "s3", "s4", "s5"}, {"n", "e", "w", "o", "t"},
       ("s0" :> ("n" :> "s1")) @@ ("s1" :> ("e" :> "s2" @@ "o" :> "s4"))
         @@ ("s2" :> ("w" :> "s3")) @@ ("s4" :> ("t" :> "s5")),
       "s0", {"s3", "s5"})

\* valid_words and invalid_words of the same test
TestWords ==
    {<<"n", "e", "w">>, <<"n", "o", "t">>, <<"n", "w", "t">>,
     <<"a", "n", "e", "w">>, <<"n", "o", "t", "n", "o", "t">>}

\* The rows of a table: for each state, a mapping of some symbols to states
DfaRows == UNION {[A -> DfaStates] : A \in SUBSET Alphabet}

\* The transition_mappings dicts: a row for some of the states
DfaTables == UNION {[Q -> DfaRows] : Q \in SUBSET DfaStates}

DFAs == {FA(DfaStates, Alphabet, tm, "s0", acc) : tm \in DfaTables, acc \in SUBSET DfaStates}

InitDFA ==
    /\ InitFa /\ InitFaut /\ InitRe /\ regex = <<>>
    /\ InitMatch /\ InitSc /\ sc_regex = <<>> /\ sc_pc = "idle"
    /\ dfa \in DFAs \cup {TestDFA}
    /\ dfa_input = <<>>
    /\ dfa_pos = 0
    /\ current_state = NoState
    /\ dfa_pc = "idle"
    /\ dfa_result = FALSE

NextDFA ==
    \/ (\E w \in (IF dfa = TestDFA THEN TestWords ELSE SeqsUpTo(Alphabet, MaxDfaLen)) :
            dfa_accepts_call(w)) /\ UNCHANGED <<faVars, fautVars, reVars, scVars, matchVars>>
    \/ dfa_accepts_step /\ UNCHANGED <<faVars, fautVars, reVars, scVars, matchVars>>
    \/ dfa_accepts_return /\ UNCHANGED <<faVars, fautVars, reVars, scVars, matchVars>>

SpecDFA == InitDFA /\ [][NextDFA]_vars

(***************************************************************************)
(* SpecMatch: an automaton is compiled with one of the two modules (which  *)
(* share nothing and are never imported together), then the threads call   *)
(* accepts on the one automaton the compilation leaves; nothing is built   *)
(* while a call is running                                                 *)
(***************************************************************************)

MaxMatchLen == 2        \* length of the words the threads give to accepts
MaxMatchStates == 6     \* State objects of fa.py allocated before the calls
MatchWords == SeqsUpTo(Alphabet, MaxMatchLen)

NoCallRunning == \A t \in Threads : matches[t].pc = "idle"
Allocating == Len(heap) + 2 <= MaxMatchStates
Compiling_fa == NoCallRunning /\ nfa_stack = <<>> /\ fa_pc = "idle"
Compiling_finite_automaton == NoCallRunning /\ heap = <<>>
Compiled_fa == Len(stack) = 1
Compiled_finite_automaton == Len(nfa_stack) = 1

NextMatch ==
    \/ Compiling_fa /\ Allocating /\ (\E s \in Alphabet : build_symbol_nfa(s))
         /\ UNCHANGED <<fautVars, reVars, scVars, dfaVars, matchVars>>
    \/ Compiling_fa /\ build_concatenation_nfa
         /\ UNCHANGED <<fautVars, reVars, scVars, dfaVars, matchVars>>
    \/ Compiling_fa /\ Allocating /\ build_union_nfa
         /\ UNCHANGED <<fautVars, reVars, scVars, dfaVars, matchVars>>
    \/ Compiling_fa /\ Allocating /\ build_closure_nfa
         /\ UNCHANGED <<fautVars, reVars, scVars, dfaVars, matchVars>>
    \/ Compiling_finite_automaton /\ from_symbol
         /\ UNCHANGED <<faVars, reVars, scVars, dfaVars, matchVars>>
    \/ Compiling_finite_automaton /\ from_concatenation
         /\ UNCHANGED <<faVars, reVars, scVars, dfaVars, matchVars>>
    \/ Compiling_finite_automaton /\ work_list_step
         /\ UNCHANGED <<faVars, reVars, scVars, dfaVars, matchVars>>
    \/ Compiling_finite_automaton /\ work_list_done
         /\ UNCHANGED <<faVars, reVars, scVars, dfaVars, matchVars>>
    \/ Compiled_fa /\ (\E t \in Threads, w \in MatchWords : accepts_call(t, w))
         /\ UNCHANGED <<fautVars, reVars, scVars, dfaVars>>
    \/ (\E t \in Threads : accepts_loop(t)) /\ UNCHANGED <<fautVars, reVars, scVars, dfaVars>>
    \/ (\E t \in Threads : accepts_return(t)) /\ UNCHANGED <<fautVars, reVars, scVars, dfaVars>>
    \/ Compiled_finite_automaton /\ (\E t \in Threads, w \in MatchWords : fa_accepts_call(t, w))
         /\ UNCHANGED <<faVars, reVars, scVars, dfaVars>>
    \/ (\E t \in Threads : fa_accepts_loop(t)) /\ UNCHANGED <<faVars, reVars, scVars, dfaVars>>
    \/ (\E t \in Threads : fa_accepts_return(t)) /\ UNCHANGED <<faVars, reVars, scVars, dfaVars>>

SpecMatch == Init /\ [][NextMatch]_vars

(***************************************************************************)
(* Reference notions used by the properties of fa.py                       *)
(***************************************************************************)

\* The states reachable from the set S over epsilon edges only, S included.
RECURSIVE EpsReach(_, _)
EpsReach(hp, S) ==
    LET more == S \cup UNION {Range(hp[s].epsilon_transitions) : s \in S}
    IN IF more = S THEN S ELSE EpsReach(hp, more)

\* The state set reached after consuming w from S, the epsilon-closure of
\* the current set being taken before every symbol.
RECURSIVE Reached(_, _, _)
Reached(hp, S, w) ==
    IF w = <<>> THEN S
    ELSE Reached(hp, UNION {transitions_get(hp, e, Head(w)) : e \in EpsReach(hp, S)}, Tail(w))

\* w is empty or a concatenation of non-empty words of L.
RECURSIVE InStar(_, _)
InStar(L, w) ==
    \/ w = <<>>
    \/ \E k \in 1..Len(w) : SubSeq(w, 1, k) \in L /\ InStar(L, SubSeq(w, k + 1, Len(w)))

\* w = w1 w2 with w1 in L1 and w2 in L2.
InConcat(L1, L2, w) ==
    \E k \in 0..Len(w) : SubSeq(w, 1, k) \in L1 /\ SubSeq(w, k + 1, Len(w)) \in L2

\* The words of Words that accepts returns true for.
Language(hp, nfa) == {w \in Words : accepts(hp, nfa, w)}

Fragments == {stack[i] : i \in DOMAIN stack}

\* C2: closure law. The automaton returned by build_closure_nfa(A) accepts w
\* iff w is empty or a concatenation of one or more words A accepted.
C2_ClosureLaw ==
    [][(op' = "closure" /\ status' = "ok" /\ heap' # heap) =>
         \A w \in Words :
            accepts(heap', stack'[Len(stack')], w)
              <=> InStar(Language(heap, stack[Len(stack)]), w)]_vars

\* C3: alternation law. The automaton returned by build_union_nfa(A, B)
\* accepts w iff A accepted w or B accepted w.
C3_AlternationLaw ==
    [][(op' = "union" /\ status' = "ok" /\ heap' # heap) =>
         \A w \in Words :
            accepts(heap', stack'[Len(stack')], w)
              <=> (w \in Language(heap, stack[Len(stack) - 1])
                   \/ w \in Language(heap, stack[Len(stack)]))]_vars

\* C4: concatenation law. The automaton returned by
\* build_concatenation_nfa(A, B) accepts w iff w = w1 w2 with A accepting w1
\* and B accepting w2, also when A and B use the same literal symbol.
C4_ConcatenationLaw ==
    [][(op' = "concatenation" /\ status' = "ok" /\ heap' # heap) =>
         \A w \in Words :
            accepts(heap', stack'[Len(stack')], w)
              <=> InConcat(Language(heap, stack[Len(stack) - 1]),
                           Language(heap, stack[Len(stack)]), w)]_vars

\* C5: termination. No builder call ends in the unbounded recursion of
\* get_epsilon_closure: every construction returns its automaton (accepts is
\* a bounded loop over the input and returns on every word).
C5_ClosureComputationTerminates == status # "RecursionError"

\* C6: for every fragment and every state s of it, the set the closure map
\* holds under the key accepts uses for s is exactly the set of states
\* reachable from s over epsilon edges, s included.
C6_ClosureMapExact ==
    \A f \in Fragments : \A s \in f.states :
        f.epsilon_closures[heap[s].label] = EpsReach(heap, {s})

(***************************************************************************)
(* Reference notions used by the properties of finite_automaton.py         *)
(***************************************************************************)

\* The epsilon targets of s: the edges the tests write under "" and the
\* edges the builders write under -1.
FaEpsTargets(tm, s) == Get(GetMap(tm, s), EPS_READ) \cup Get(GetMap(tm, s), EPS_BUILT)

RECURSIVE FaEpsReach(_, _)
FaEpsReach(tm, S) ==
    LET more == S \cup UNION {FaEpsTargets(tm, s) : s \in S}
    IN IF more = S THEN S ELSE FaEpsReach(tm, more)

RECURSIVE FaReached(_, _, _)
FaReached(tm, S, w) ==
    IF w = <<>> THEN S
    ELSE FaReached(tm, UNION {Get(GetMap(tm, e), Head(w)) : e \in FaEpsReach(tm, S)}, Tail(w))

Automata == {nfa_stack[i] : i \in DOMAIN nfa_stack}

C1_fa ==
    \A f \in Fragments : \A w \in Words :
        accepts(heap, f, w)
          <=> (EpsReach(heap, Reached(heap, {f.initial_state}, w)) \cap f.accepting_states # {})

C1_finite_automaton ==
    \A n \in Automata : \A w \in FaWords :
        (fa_accepts(n, w) = "True")
          <=> (FaEpsReach(n.transition_mappings, FaReached(n.transition_mappings, {n.start_state}, w))
                 \cap n.accepting_states # {})

\* C1: in fa.NFA and in finite_automaton.NFA, accepts(w) is true exactly when
\* an accepting state lies in the epsilon-closure of the state set reached
\* after consuming all of w.
C1_AcceptsIffAcceptingInFinalClosure == C1_fa /\ C1_finite_automaton

\* C7: the work-list computation leaves, for every state of every automaton,
\* exactly the set of states reachable over epsilon edges, the state itself
\* included, whatever the order in which the work-list gave up its states.
C7_WorkListClosureExact ==
    \A n \in Automata : \A s \in n.states :
        n.epsilon_closures[s] = FaEpsReach(n.transition_mappings, {s})

\* C8: a string whose simulation in finite_automaton.NFA.accepts reaches the
\* empty current-state set is rejected.
C8_EmptyStateSetRejects ==
    \A n \in Automata : \A w \in FaWords :
        LET r == fa_accepts_run(n, {n.start_state}, w)
        IN (~r.error /\ r.current_states = {}) => fa_accepts(n, w) = "False"

(***************************************************************************)
(* Reference notions used by the properties of scanner/thompson.py         *)
(***************************************************************************)

\* The claim's rule: a '.' goes between r[i] and r[i+1] exactly when r[i] is
\* neither '(' nor '|' and r[i+1] is none of ')', '*', '|'.
Inserts(r, i) == r[i] \notin {"(", "|"} /\ r[i + 1] \notin {")", "*", "|"}

\* The number of '.' inserted before the i-th character of r
InsertedBefore(r, i) == Cardinality({j \in 1..(i - 1) : Inserts(r, j)})

\* C9: format_regex inserts '.' between adjacent tokens a and b exactly when
\* a is neither '(' nor '|' and b is none of ')', '*', '|', and changes
\* nothing else: every character of the input is kept, in order, the only
\* additions are those '.', the empty regex and a single token are unchanged.
C9_FormatRegexInsertsConcatenation ==
    re_pc # "start" =>
        /\ Len(formatted) = Len(regex) + InsertedBefore(regex, Len(regex))
        /\ \A i \in 1..Len(regex) :
            /\ formatted[i + InsertedBefore(regex, i)] = regex[i]
            /\ (i < Len(regex) /\ Inserts(regex, i))
                  => formatted[i + InsertedBefore(regex, i) + 1] = "."
        /\ (Len(regex) <= 1 => formatted = regex)

C9_Witness ==
    /\ re_pc # "start"
    /\ regex = <<"a", "(", "a", "|", "b", ")", "*", "b">>
    /\ formatted = <<"a", ".", "(", "a", "|", "b", ")", "*", ".", "b">>

\* A recursive-descent reading of an explicit infix regex by the grammar
\*   alt ::= cat ('|' cat)*    cat ::= star ('.' star)*
\*   star ::= atom '*'*        atom ::= literal | '(' alt ')'
\* each returning the postfix form of what it read and the next index.
ParseFail == [ok |-> FALSE, out |-> <<>>, next |-> 0]

RECURSIVE ParseAlt(_, _), AltRest(_, _), ParseCat(_, _), CatRest(_, _), ParseStar(_, _), Stars(_, _), ParseAtom(_, _)

ParseAtom(r, i) ==
    IF i > Len(r) THEN ParseFail
    ELSE IF r[i] \notin SPECIAL_CHARS THEN [ok |-> TRUE, out |-> <<r[i]>>, next |-> i + 1]
    ELSE IF r[i] = LPAREN
         THEN LET p == ParseAlt(r, i + 1)
              IN IF p.ok /\ p.next <= Len(r) /\ r[p.next] = RPAREN
                 THEN [p EXCEPT !.next = @ + 1] ELSE ParseFail
         ELSE ParseFail

Stars(r, p) ==
    IF p.next <= Len(r) /\ r[p.next] = CLOSURE
    THEN Stars(r, [ok |-> TRUE, out |-> Append(p.out, CLOSURE), next |-> p.next + 1])
    ELSE p

ParseStar(r, i) == LET p == ParseAtom(r, i) IN IF p.ok THEN Stars(r, p) ELSE ParseFail

CatRest(r, p) ==
    IF p.next <= Len(r) /\ r[p.next] = CONCATENATION
    THEN LET q == ParseStar(r, p.next + 1)
         IN IF q.ok
            THEN CatRest(r, [ok |-> TRUE, out |-> Append(p.out \o q.out, CONCATENATION), next |-> q.next])
            ELSE ParseFail
    ELSE p

ParseCat(r, i) == LET p == ParseStar(r, i) IN IF p.ok THEN CatRest(r, p) ELSE ParseFail

AltRest(r, p) ==
    IF p.next <= Len(r) /\ r[p.next] = ALTERNATION
    THEN LET q == ParseCat(r, p.next + 1)
         IN IF q.ok
            THEN AltRest(r, [ok |-> TRUE, out |-> Append(p.out \o q.out, ALTERNATION), next |-> q.next])
            ELSE ParseFail
    ELSE p

ParseAlt(r, i) == LET p == ParseCat(r, i) IN IF p.ok THEN AltRest(r, p) ELSE ParseFail

\* r is a balanced infix regex with explicit concatenation
WellFormed(r) == LET p == ParseAlt(r, 1) IN p.ok /\ p.next = Len(r) + 1

\* Its postfix form: closure over concatenation over alternation,
\* parentheses first, equal operators grouped from the left
PostfixOf(r) == ParseAlt(r, 1).out

\* C10: for a balanced, explicitly concatenated infix regex convert_to_postfix
\* returns the postfix form in which closure binds tighter than
\* concatenation, concatenation tighter than alternation, parentheses
\* override and equal operators associate to the left.
C10_ConvertToPostfix ==
    WellFormed(regex) =>
        /\ re_pc # "IndexError"
        /\ re_pc = "done" => postfix = PostfixOf(regex)
        /\ (re_pc = "done" /\ regex = <<"a", ".", "a", ".", "b">>)
              => postfix = <<"a", "a", ".", "b", ".">>
        /\ (re_pc = "done" /\ regex = <<"a", "|", "b", "*">>)
              => postfix = <<"a", "b", "*", "|">>
        /\ (re_pc = "done" /\ regex = <<"a", ".", "(", "a", "|", "b", ")", "*", ".", "b">>)
              => postfix = <<"a", "a", "b", "|", "*", ".", "b", ".">>

C10_Witness ==
    /\ re_pc = "done"
    /\ regex = <<"a", ".", "(", "a", "|", "b", ")", "*", ".", "b">>
    /\ postfix = <<"a", "a", "b", "|", "*", ".", "b", ".">>

\* The number of c among the first k characters of r
Count(r, k, c) == Cardinality({j \in 1..k : r[j] = c})

\* Some ')' among the first n characters of r closes no earlier '('
HasUnmatchedClose(r, n) ==
    \E k \in 1..n : Count(r, k, RPAREN) > Count(r, k, LPAREN)

\* Some '(' of r is closed by no later ')'
HasUnmatchedOpen(r) ==
    \E k \in 1..Len(r) :
        /\ r[k] = LPAREN
        /\ \A m \in k..Len(r) :
             Count(r, m, LPAREN) - Count(r, k - 1, LPAREN)
                > Count(r, m, RPAREN) - Count(r, k - 1, RPAREN)

\* C11: an input with a '(' that no ')' matches makes convert_to_postfix
\* report a syntax error instead of returning; no returned postfix string
\* contains '('.
C11_UnclosedParenIsAnError ==
    re_pc = "done" => (~HasUnmatchedOpen(regex) /\ LPAREN \notin Range(postfix))

\* C12: once convert_to_postfix has scanned a ')' for which the operator
\* stack holds no '(', the conversion has ended in an error and returns no
\* postfix string, whatever was stacked or emitted before.
C12_UnmatchedCloseIsAnError ==
    HasUnmatchedClose(regex, pos) => (re_pc = "IndexError" /\ postfix = <<>>)

C12_Witness ==
    /\ regex = <<"a", "|", "b", ")">>
    /\ re_pc = "IndexError"
    /\ output = <<"a", "b", "|">>

(***************************************************************************)
(* Reference notions used by the properties of scanner.py                  *)
(***************************************************************************)

StreamOperators == {"?", "|", "*"}

\* The number of fragments a postfix evaluation of the first k characters of
\* r leaves, or -1 once an operator lacked an operand
RECURSIVE Fragments_left(_, _)
Fragments_left(r, k) ==
    IF k = 0 THEN 0
    ELSE LET before == Fragments_left(r, k - 1)
         IN IF before = -1 THEN -1
            ELSE IF r[k] \in {"?", "|"} THEN (IF before >= 2 THEN before - 1 ELSE -1)
            ELSE IF r[k] = "*" THEN (IF before >= 1 THEN before ELSE -1)
            ELSE before + 1

\* r is a well-formed postfix stream over literals, '?' and '|'
WellFormedStream(r) == "*" \notin Range(r) /\ Fragments_left(r, Len(r)) = 1

Literals(r) == Range(r) \ StreamOperators

\* C13: create_nfa returns an automaton only if exactly one fragment is left
\* when the stream is exhausted; otherwise it ends in an error.
C13_ReturnsOnlyWithOneFragmentLeft ==
    sc_pc = "returned" => (Fragments_left(sc_regex, Len(sc_regex)) = 1 /\ nfa_stack = <<>>)

\* v is an automaton whose start state, accepting states and transition
\* endpoints all belong to its state set
StructurallyValid(v) ==
    /\ ~IsNone(v)
    /\ v.start_state \in v.states
    /\ v.accepting_states \subseteq v.states
    /\ \A k \in DOMAIN v.transition_mappings :
        /\ k \in v.states
        /\ \A kk \in DOMAIN v.transition_mappings[k] : v.transition_mappings[k][kk] \subseteq v.states

\* C14: whatever create_nfa returns is a structurally valid automaton, never
\* an absent value.
C14_ReturnedAutomatonIsValid ==
    sc_pc = "returned" => StructurallyValid(returned)

\* C16: for a well-formed stream over literals, '?' and '|', create_nfa
\* returns, and the alphabet of the automaton it returns is exactly the set
\* of literal symbols occurring in the stream.
C16_AlphabetIsTheLiterals ==
    WellFormedStream(sc_regex) =>
        /\ sc_pc \in {"loop", "returned"}
        /\ sc_pc = "returned" => returned.alphabet = Literals(sc_regex)

C16_Witness ==
    /\ sc_regex = <<"a", "b", "?", "a", "|">>
    /\ sc_pc = "returned"
    /\ returned.alphabet = {"a", "b"}

\* C19: when create_nfa evaluates a binary operator with fragments A (pushed
\* earlier) and B (top) on the stack, A is the first operand and B the
\* second, both leave the stack and the one result is pushed when built; the
\* concatenation starts in A's start state and accepts in B's accepting
\* state shifted by the number of A's states.
C19_OperandOrder ==
    [][/\ (/\ sc_pc = "loop" /\ fa_pc = "idle" /\ sc_pos' = sc_pos + 1
           /\ sc_regex[sc_pos + 1] \in {"?", "|"}
           /\ Len(nfa_stack) >= 2
           /\ ~IsNone(nfa_stack[Len(nfa_stack) - 1]) /\ ~IsNone(nfa_stack[Len(nfa_stack)]))
          => LET A == nfa_stack[Len(nfa_stack) - 1]
                 B == nfa_stack[Len(nfa_stack)]
                 n == Cardinality(A.states)
             IN /\ sc_pc' = "loop"
                /\ fa_pc' = "closures"
                /\ nfa_stack' = AllButLastTwo(nfa_stack)
                /\ sc_regex[sc_pos + 1] = "?" =>
                     /\ cur'.start_state = A.start_state
                     /\ cur'.accepting_states = {b + n : b \in B.accepting_states}
                /\ sc_regex[sc_pos + 1] = "|" =>
                     /\ Get(GetMap(cur'.transition_mappings, 0), EPS_BUILT)
                          = {A.start_state + 1, B.start_state + n + 1}
                     /\ \A a \in A.accepting_states :
                          EPS_BUILT \in DOMAIN GetMap(cur'.transition_mappings, a + 1)
                     /\ \A b \in B.accepting_states :
                          EPS_BUILT \in DOMAIN GetMap(cur'.transition_mappings, b + n + 1)
       /\ (fa_pc = "closures" /\ fa_pc' = "idle")
          => /\ Len(nfa_stack') = Len(nfa_stack) + 1
             /\ Last(nfa_stack').start_state = cur.start_state
             /\ Last(nfa_stack').accepting_states = cur.accepting_states]_vars

C19_Witness ==
    /\ sc_regex = <<"a", "b", "|", "a", "?">>
    /\ sc_pos = 5
    /\ fa_pc = "idle"
    /\ nfa_stack # <<>>
    /\ Last(nfa_stack).start_state = 0
    /\ Last(nfa_stack).accepting_states = {5}

(***************************************************************************)
(* Properties of the builders of fa.py                                     *)
(***************************************************************************)

\* C15: a compiled fragment accepts the same words whichever closure map the
\* iteration order of its state set produced when the map was filled.
C15_AcceptanceIndependentOfIterationOrder ==
    status = "ok" =>
        \A f \in Fragments : \A closures \in create_epsilon_closures(heap, f.states) :
            Language(heap, [f EXCEPT !.epsilon_closures = closures]) = Language(heap, f)

\* A step of the builder named name that returned a fragment
Built(name) == op' = name /\ status' = "ok" /\ heap' # heap

\* C18: every fragment has exactly one initial and exactly one accepting
\* state, both in its state set, so the pairing of build_union_nfa gives
\* every accepting state of both operands its edge to the new accepting state.
C18_SingleAcceptingState ==
    /\ [](\A f \in Fragments :
            /\ f.initial_state \in f.states
            /\ f.accepting_states \subseteq f.states
            /\ Cardinality(f.accepting_states) = 1)
    /\ [][Built("union") =>
            \A s \in stack[Len(stack) - 1].accepting_states \cup stack[Len(stack)].accepting_states :
                Last(stack').accepting_states \subseteq Range(heap'[s].epsilon_transitions)]_vars

C18_Witness ==
    /\ op = "union"
    /\ status = "ok"
    /\ stack # <<>>
    /\ LET f == Last(stack)
       IN Cardinality({s \in f.states :
                          f.accepting_states \subseteq Range(heap[s].epsilon_transitions)}) = 2

\* Every State object that existed before the step is the same object after
\* it, with its label and symbol transitions, and with the epsilon targets
\* added(id) appended to its list
OldStatesKept(added(_)) ==
    \A id \in 1..Len(heap) :
        /\ heap'[id].label = heap[id].label
        /\ heap'[id].transitions = heap[id].transitions
        /\ heap'[id].epsilon_transitions = heap[id].epsilon_transitions \o added(id)

\* C20: a builder composes by reference. The state set of the result is the
\* union of the operands' state sets and the new State objects of the rule
\* (none for concatenation, two for union, two for closure); only the epsilon
\* edges of the rule are added, and every symbol transition and every other
\* epsilon edge is as before; no State object is duplicated.
C20_CompositionByReference ==
    [][/\ Built("concatenation") =>
            LET first == stack[Len(stack) - 1]
                second == stack[Len(stack)]
                added(id) == IF id \in first.accepting_states
                             THEN <<second.initial_state>> ELSE <<>>
            IN /\ Last(stack').states = first.states \cup second.states
               /\ Cardinality(Last(stack').states)
                    = Cardinality(first.states) + Cardinality(second.states)
               /\ Len(heap') = Len(heap)
               /\ OldStatesKept(added)
       /\ Built("union") =>
            LET first == stack[Len(stack) - 1]
                second == stack[Len(stack)]
                initial == Len(heap) + 1
                accepting == Len(heap) + 2
                added(id) == IF id \in first.accepting_states \cup second.accepting_states
                             THEN <<accepting>> ELSE <<>>
            IN /\ Last(stack').states = first.states \cup second.states \cup {initial, accepting}
               /\ Cardinality(Last(stack').states)
                    = Cardinality(first.states) + Cardinality(second.states) + 2
               /\ Len(heap') = Len(heap) + 2
               /\ OldStatesKept(added)
               /\ heap'[initial] = State("initial_union", <<first.initial_state, second.initial_state>>)
               /\ heap'[accepting] = State("accepting_union", <<>>)
       /\ Built("closure") =>
            LET source == stack[Len(stack)]
                accepting == Len(heap) + 1
                initial == Len(heap) + 2
                added(id) == IF id \in source.accepting_states
                             THEN <<source.initial_state, accepting>> ELSE <<>>
            IN /\ Last(stack').states = source.states \cup {initial, accepting}
               /\ Cardinality(Last(stack').states) = Cardinality(source.states) + 2
               /\ Len(heap') = Len(heap) + 2
               /\ OldStatesKept(added)
               /\ heap'[initial] = State("initial_closure", <<source.initial_state, accepting>>)
               /\ heap'[accepting] = State("accepting_closure", <<>>)]_vars

C20_Witness ==
    /\ op = "closure"
    /\ status = "ok"
    /\ stack # <<>>
    /\ LET f == Last(stack)
       IN /\ Cardinality(f.states) = 8
          /\ \E s \in f.states : heap[s].label = "accepting_union"
                /\ Len(heap[s].epsilon_transitions) = 2

(***************************************************************************)
(* Properties of DFA.accepts                                               *)
(***************************************************************************)

\* The states the table leads to from the start state on w: one state, or
\* none when some symbol of w has no transition
RECURSIVE Run(_, _)
Run(d, w) ==
    IF w = <<>> THEN {d.start_state}
    ELSE {d.transition_mappings[q][Last(w)] :
            q \in {p \in Run(d, AllButLast(w)) :
                     /\ p \in DOMAIN d.transition_mappings
                     /\ Last(w) \in DOMAIN d.transition_mappings[p]}}

\* C17: DFA.accepts(w) is true exactly when the table has a transition for
\* every symbol of w in turn and the state reached is accepting; the walk
\* stops at the first symbol without a transition and the word is rejected.
C17_DfaAccepts ==
    /\ dfa_pc = "returned" =>
         /\ dfa_result <=> (Run(dfa, dfa_input) \cap dfa.accepting_states # {})
         /\ current_state # NoState => dfa_pos = Len(dfa_input)
         /\ current_state = NoState => ~dfa_result
    /\ dfa_pc \in {"break", "returned"} /\ current_state = NoState =>
         /\ Run(dfa, SubSeq(dfa_input, 1, dfa_pos - 1)) # {}
         /\ Run(dfa, SubSeq(dfa_input, 1, dfa_pos)) = {}

C17_Witness ==
    /\ dfa = TestDFA
    /\ dfa_input = <<"n", "o", "t", "n", "o", "t">>
    /\ dfa_pc = "returned"
    /\ dfa_pos = 4
    /\ dfa_result = FALSE

(***************************************************************************)
(* Properties of the constructors and of accepts of finite_automaton.py    *)
(***************************************************************************)

\* Every transition of tm is in built with its state numbers shifted by i:
\* every symbol of a state and every target of a symbol
ShiftedInto(tm, i, built) ==
    \A k \in DOMAIN tm : \A kk \in DOMAIN tm[k] : \A t \in tm[k][kk] :
        (t + i) \in Get(GetMap(built, k + i), kk)

\* C21: NFA.from_union(first, second) and NFA.from_concatenation(first,
\* second) leave the state set, alphabet, transition mappings, start state
\* and accepting states of first and of second as they were before the call,
\* and the result holds every transition of each operand shifted by the
\* operand's offset.
C21_ConstructionIsPure ==
    [][(fa_pc = "idle" /\ fa_pc' = "closures" /\ fa_op' \in {"from_union", "from_concatenation"})
        => LET first == nfa_stack[Len(nfa_stack) - 1]
               second == nfa_stack[Len(nfa_stack)]
               first_num_states == Cardinality(first.states)
               first_offset == IF fa_op' = "from_union" THEN 1 ELSE 0
               second_offset == first_num_states + first_offset
           IN /\ operands'[1] = first
              /\ operands'[2] = second
              /\ ShiftedInto(first.transition_mappings, first_offset, cur'.transition_mappings)
              /\ ShiftedInto(second.transition_mappings, second_offset, cur'.transition_mappings)]_vars

\* The automaton the threads call accepts on: the State objects and the
\* newest fragment of fa.py, or the newest NFA object of finite_automaton.py
Compiled == <<heap, stack, nfa_stack>>

\* What accepts(w) returns when no other call is running
Alone(w) ==
    IF stack # <<>>
    THEN (IF accepts(heap, Last(stack), w) THEN "True" ELSE "False")
    ELSE fa_accepts(Last(nfa_stack), w)

\* C22: accepts is read-only. Whatever accepts calls the threads interleave
\* on a compiled automaton, every step of a call leaves its State objects
\* and their transition tables (no entry is created for a symbol a state has
\* no transition on), its state set, accepting set and closure map as they
\* were, and each call returns what it returns when run alone.
C22_AcceptsIsReadOnly ==
    /\ [][matches' # matches => Compiled' = Compiled]_vars
    /\ [](\A t \in Threads :
            matches[t].pc = "returned" => matches[t].result = Alone(matches[t].input_str))

\* Thread 1 has returned from a call on the fragment of a symbol in which it
\* looked up a symbol without transition, while thread 2, which has made a
\* whole call already, stands in the middle of another
C22_Witness ==
    /\ op = "symbol" /\ Len(stack) = 1
    /\ matches[1].pc = "returned" /\ matches[1].input_str = <<"a", "b">> /\ matches[1].result = "False"
    /\ matches[2].pc = "loop" /\ matches[2].pos = 1 /\ matches[2].result = "True"

====
